---- MODULE Spec2Model ----
(***************************************************************************)
(* Graceful shutdown of a process hosting several HTTP servers             *)
(* (advance/ctx/graceful_shutdown/service/shutdown.go).                    *)
(*                                                                         *)
(* Time is counted in seconds by the timers that are armed.  Steps of the  *)
(* program itself (loop iterations, channel operations that are ready,     *)
(* timers that have expired) take no time: the clock only advances when no *)
(* such step is enabled.  Steps of the environment (signals, requests      *)
(* arriving and completing, route registration through Handle, callbacks   *)
(* returning, the caller of StartAndServe returning from main) take        *)
(* arbitrary time.                                                         *)
(***************************************************************************)
EXTENDS Integers, FiniteSets, Sequences, TLC

\* ---- program constants --------------------------------------------------
shutdownTimeout == 30
waitTime == 10
cbTimeout == 3
closeSleep == 1
sigChanCap == 1

\* ---- bounds of the model ------------------------------------------------
NumServers == 2
NumCallbacks == 2
\* requests being handled at the same time, over all servers
MaxInflight == 1
\* calls of Server.Handle in progress at the same time, over all servers
MaxHandle == 1
\* the clocks of the drain phase and of stop() saturate at these values
MaxDrain == 11
MaxStopWait == 1

Servers == 1..NumServers
Callbacks == 1..NumCallbacks

Min(a, b) == IF a < b THEN a ELSE b

RECURSIVE SumTo(_, _)
SumTo(f, n) == IF n = 0 THEN 0 ELSE f[n] + SumTo(f, n - 1)

VARIABLES
    pc,           \* position of the goroutine running StartAndServe: [ph, i]
    srvState,     \* http.Server of each Server: new / listening / closed
    reject,       \* serverMux.reject as written by the coordinator
    rejectSeen,   \* serverMux.reject as observed by the request goroutines
    wg,           \* Server.wg counter
    inflight,     \* requests forwarded to the wrapped ServeMux and not yet returned
    helper,       \* goroutine spawned by waitInflight: none / waiting / sending / done
    waitOutcome,  \* branch taken by waitInflight's select: none / drained / timeout
    stopState,    \* Server.stop: none / called / returned
    stopErr,      \* some call of Server.stop has returned an error
    armed,        \* the duration each timer was last armed with
    cb,           \* callback goroutines: idle / running / returned / done /
                  \* panicked
    cbWg,         \* the WaitGroup of execCallBack
    launched,     \* times each registered callback has been invoked
    cbCtx,        \* seconds left, at launch, in the context each callback
                  \* received; NoCtx before that
    ctxElapsed,   \* seconds since context.WithTimeout created the context
    sigBuf,       \* signals buffered in channel c
    sig2During,   \* a signal was delivered while shutdown() was running
    racePc,       \* the goroutine racing second signal against the timer
    exitStatus,   \* none / 0 / 1 / 2
    waitElapsed,  \* seconds since the current time.After(waitTime) was armed
    drainElapsed, \* seconds spent in the drain phase so far
    stopElapsed,  \* seconds spent inside the current call of stop()
    closeElapsed, \* seconds since time.Sleep in close() began
    raceElapsed,  \* seconds since time.After(shutdownTimeout) was armed
    waited,       \* a second has passed inside shutdown() before its
                  \* release phase
    busy          \* a request has been in flight on the server since the
                  \* current waitInflight began

vars == <<pc, srvState, reject, rejectSeen, wg, inflight, helper,
          waitOutcome, stopState, stopErr, armed, cb, cbWg, sigBuf, sig2During,
          racePc, exitStatus, waitElapsed, drainElapsed, stopElapsed,
          closeElapsed, raceElapsed, waited, busy, launched, cbCtx,
          ctxElapsed>>

srvVars == <<srvState, reject, rejectSeen, wg, inflight, helper,
             waitOutcome, stopState, busy>>
cbVars == <<cb, cbWg>>
sigVars == <<sigBuf, sig2During>>
ghostVars == <<stopErr, armed>>
ctxVars == <<launched, cbCtx, ctxElapsed>>
timeVars == <<waitElapsed, drainElapsed, stopElapsed, closeElapsed, raceElapsed,
              waited>>

Alive == exitStatus = "none"

\* ---- NewApp and its options (29-33, 51-62) ------------------------------
\* The callbacks the caller registers, split over two options.
Options == << [i \in 1..Min(1, NumCallbacks) |-> i],
             [i \in 1..(NumCallbacks - Min(1, NumCallbacks)) |-> i + 1] >>

ReplacingCallbacks(cbs, new) == new

\* app.cbs = append(app.cbs, cbs...) (31)
WithShutdownCallbacks(cbs, new) == cbs \o new

\* for _, opt := range opts { opt(res) } (58-60)
RECURSIVE ApplyOptions(_, _)
ApplyOptions(cbs, n) ==
    IF n = 0 THEN cbs
    ELSE WithShutdownCallbacks(ApplyOptions(cbs, n - 1), Options[n])

\* app.cbs after NewApp
AppCbs == ApplyOptions(<< >>, Len(Options))

\* A time.Duration, which counts nanoseconds, as seconds and nanoseconds.
\* An untyped constant n stored in a time.Duration field is n nanoseconds
\* (53-55) ...
Duration(n) == [s |-> n \div 1000000000, ns |-> n % 1000000000]

\* ... and time.Second * n is n seconds (96, 107, 199).
TimesSecond(n) == [s |-> n, ns |-> 0]

\* The fields of App after NewApp (53-55); no option writes them.
AppConfig == [shutdownTimeout |-> Duration(shutdownTimeout),
              waitTime |-> Duration(waitTime),
              cbTimeout |-> Duration(cbTimeout)]

NotArmed == [s |-> -1, ns |-> 0]

\* no context has been handed to the callback
NoCtx == -1

ShutdownPhases == {"reject", "wait", "waitSel", "stop", "stopRet",
                   "cbSpawn", "cbJoin", "close"}
InShutdown == pc.ph \in ShutdownPhases
SignalReceived == pc.ph \notin {"start", "select"}

\* ---- Init: NewServer (162-173) and NewApp (51-62) -----------------------
RejectingFromStart == TRUE

\* mux := &serverMux{ServeMux: http.NewServeMux()} (163): reject has the
\* zero value of bool.
NewServerReject == FALSE

Init ==
    /\ pc = [ph |-> "start", i |-> 0]
    /\ srvState = [s \in Servers |-> "new"]
    /\ reject = [s \in Servers |-> NewServerReject]
    /\ rejectSeen = [s \in Servers |-> NewServerReject]
    /\ wg = [s \in Servers |-> 0]
    /\ inflight = [s \in Servers |-> 0]
    /\ helper = [s \in Servers |-> "none"]
    /\ waitOutcome = [s \in Servers |-> "none"]
    /\ stopState = [s \in Servers |-> "none"]
    /\ stopErr = FALSE
    /\ armed = [wait |-> NotArmed, cb |-> NotArmed, exit |-> NotArmed]
    /\ cb = [c \in Callbacks |-> "idle"]
    /\ cbWg = 0
    /\ launched = [c \in Callbacks |-> 0]
    /\ cbCtx = [c \in Callbacks |-> NoCtx]
    /\ ctxElapsed = 0
    /\ sigBuf = 0
    /\ sig2During = FALSE
    /\ racePc = "none"
    /\ exitStatus = "none"
    /\ waitElapsed = 0
    /\ drainElapsed = 0
    /\ stopElapsed = 0
    /\ closeElapsed = 0
    /\ raceElapsed = 0
    /\ waited = FALSE
    /\ busy = FALSE

\* ---- program order of shutdown() (105-132) ------------------------------
\* The position reached after the step of phase ph on server / callback i.
FirstCb == IF Len(AppCbs) = 0 THEN [ph |-> "cbJoin", i |-> 0]
           ELSE [ph |-> "cbSpawn", i |-> 1]

InterleavedAdvance(ph, i) ==
    CASE ph = "reject" -> IF i < NumServers THEN [ph |-> "reject", i |-> i + 1]
                          ELSE [ph |-> "wait", i |-> 1]
      [] ph = "waitSel" -> [ph |-> "stop", i |-> i]
      [] ph = "stopRet" -> IF i < NumServers THEN [ph |-> "wait", i |-> i + 1]
                           ELSE FirstCb
      [] ph = "cbSpawn" -> IF i < Len(AppCbs) THEN [ph |-> "cbSpawn", i |-> i + 1]
                           ELSE [ph |-> "cbJoin", i |-> 0]

Advance(ph, i) ==
    CASE ph = "reject" -> IF i < NumServers THEN [ph |-> "reject", i |-> i + 1]
                          ELSE [ph |-> "wait", i |-> 1]
      [] ph = "waitSel" -> IF i < NumServers THEN [ph |-> "wait", i |-> i + 1]
                           ELSE [ph |-> "stop", i |-> 1]
      [] ph = "stopRet" -> IF i < NumServers THEN [ph |-> "stop", i |-> i + 1]
                           ELSE FirstCb
      [] ph = "cbSpawn" -> IF i < Len(AppCbs) THEN [ph |-> "cbSpawn", i |-> i + 1]
                           ELSE [ph |-> "cbJoin", i |-> 0]

AbortOnStopError(i, err) ==
    IF err THEN [ph |-> "afterShutdown", i |-> 0] ELSE Advance("stopRet", i)

RetryOnStopError(i, err) ==
    IF err THEN [ph |-> "stop", i |-> i] ELSE Advance("stopRet", i)

\* `_ = srv.stop()` (122): the error is dropped and the loop goes on.
AfterStop(i, err) == Advance("stopRet", i)

\* case <-time.After(time.Second * waitTime) (199)
DrainTimerFired(elapsed) == elapsed >= waitTime

\* ---- StartAndServe (65-102) ---------------------------------------------
\* Lines 66-85: one goroutine per server is spawned, the channel is created
\* and signal.Notify registered; the goroutine then blocks in select.
StartServers ==
    /\ Alive
    /\ pc.ph = "start"
    /\ pc' = [ph |-> "select", i |-> 0]
    /\ UNCHANGED <<srvVars, cbVars, sigVars, racePc, exitStatus, timeVars>>
    /\ UNCHANGED ghostVars
    /\ UNCHANGED ctxVars

\* go func() { srv.Start() } (68-79, 181-183): ListenAndServe begins to
\* accept connections.  (After Shutdown it returns ErrServerClosed at once
\* and the server stays closed.)
ServerStart(s) ==
    /\ Alive
    /\ pc.ph # "start"
    /\ srvState[s] = "new"
    /\ srvState' = [srvState EXCEPT ![s] = "listening"]
    /\ UNCHANGED <<pc, reject, rejectSeen, wg, inflight, helper,
                   waitOutcome, stopState, busy, cbVars, sigVars,
                   racePc, exitStatus, timeVars>>
    /\ UNCHANGED ghostVars
    /\ UNCHANGED ctxVars

\* The operating system delivers SIGINT; signal.Notify does a non-blocking
\* send on c, which has capacity 1 (84-85).
Signal ==
    /\ Alive
    /\ pc.ph # "start"
    /\ sigBuf' = Min(sigBuf + 1, sigChanCap)
    /\ sig2During' = (sig2During \/ InShutdown)
    /\ UNCHANGED <<pc, srvVars, cbVars, racePc, exitStatus, timeVars>>
    /\ UNCHANGED ghostVars
    /\ UNCHANGED ctxVars

\* case <-c: app.shutdown() (87-88) and shutdown's context creation (107).
RecvFirstSignal ==
    /\ Alive
    /\ pc.ph = "select"
    /\ sigBuf > 0
    /\ sigBuf' = sigBuf - 1
    /\ ctxElapsed' = 0
    /\ pc' = [ph |-> "reject", i |-> 1]
    /\ UNCHANGED <<launched, cbCtx>>
    /\ UNCHANGED <<srvVars, cbVars, sig2During, racePc, exitStatus,
                   timeVars>>
    /\ armed' = [armed EXCEPT !.cb = TimesSecond(cbTimeout)]
    /\ UNCHANGED stopErr

\* ---- shutdown(): reject phase (111-113, 185-187) ------------------------
RejectReq(s) ==
    /\ Alive
    /\ pc = [ph |-> "reject", i |-> s]
    /\ reject' = [reject EXCEPT ![s] = TRUE]
    /\ pc' = Advance("reject", s)
    /\ UNCHANGED <<srvState, rejectSeen, wg, inflight, helper,
                   waitOutcome, stopState, busy, cbVars, sigVars,
                   racePc, exitStatus, timeVars>>
    /\ UNCHANGED ghostVars
    /\ UNCHANGED ctxVars

\* The plain write of serverMux.reject (186) is not synchronised with the
\* plain read in ServeHTTP (154): the request goroutines observe it at some
\* later point that nothing in the program orders.
Publish(s) ==
    /\ Alive
    /\ reject[s]
    /\ ~rejectSeen[s]
    /\ rejectSeen' = [rejectSeen EXCEPT ![s] = TRUE]
    /\ UNCHANGED <<pc, srvState, reject, wg, inflight, helper,
                   waitOutcome, stopState, busy, cbVars, sigVars,
                   racePc, exitStatus, timeVars>>
    /\ UNCHANGED ghostVars
    /\ UNCHANGED ctxVars

\* ---- shutdown(): drain phase (116-118, 190-202) -------------------------
\* waitInflight up to the select: the channel is made, the helper goroutine
\* spawned and the timer armed.
WaitStart(s) ==
    /\ Alive
    /\ pc = [ph |-> "wait", i |-> s]
    /\ helper' = [helper EXCEPT ![s] = "waiting"]
    /\ waitElapsed' = 0
    /\ busy' = (inflight[s] > 0)
    /\ pc' = [ph |-> "waitSel", i |-> s]
    /\ UNCHANGED <<srvState, reject, rejectSeen, wg, inflight,
                   waitOutcome, stopState, cbVars, sigVars, racePc,
                   exitStatus, drainElapsed, stopElapsed, closeElapsed,
                   raceElapsed, waited>>
    /\ armed' = [armed EXCEPT !.wait = TimesSecond(waitTime)]
    /\ UNCHANGED stopErr
    /\ UNCHANGED ctxVars

\* s.wg.Wait() returns once the counter is zero (193); the goroutine is then
\* blocked in the send on the unbuffered channel (194).
HelperWake(s) ==
    /\ Alive
    /\ helper[s] = "waiting"
    /\ wg[s] = 0
    /\ helper' = [helper EXCEPT ![s] = "sending"]
    /\ UNCHANGED <<pc, srvState, reject, rejectSeen, wg, inflight,
                   waitOutcome, stopState, busy, cbVars, sigVars,
                   racePc, exitStatus, timeVars>>
    /\ UNCHANGED ghostVars
    /\ UNCHANGED ctxVars

\* waitInflight returns: the drain phase ends after the last server.
DrainClock(next) == IF next.ph = "wait" THEN drainElapsed ELSE 0

\* case <-ch (197-198)
WaitDrained(s) ==
    /\ Alive
    /\ pc = [ph |-> "waitSel", i |-> s]
    /\ helper[s] = "sending"
    /\ helper' = [helper EXCEPT ![s] = "done"]
    /\ waitOutcome' = [waitOutcome EXCEPT ![s] = "drained"]
    /\ pc' = Advance("waitSel", s)
    /\ drainElapsed' = DrainClock(pc')
    /\ waitElapsed' = 0
    /\ busy' = FALSE
    /\ UNCHANGED <<srvState, reject, rejectSeen, wg, inflight,
                   stopState, cbVars, sigVars, racePc, exitStatus,
                   stopElapsed, closeElapsed, raceElapsed, waited>>
    /\ UNCHANGED ghostVars
    /\ UNCHANGED ctxVars

\* case <-time.After(...) (199-200); the helper goroutine is left behind.
WaitTimeout(s) ==
    /\ Alive
    /\ pc = [ph |-> "waitSel", i |-> s]
    /\ DrainTimerFired(waitElapsed)
    /\ waitOutcome' = [waitOutcome EXCEPT ![s] = "timeout"]
    /\ pc' = Advance("waitSel", s)
    /\ drainElapsed' = DrainClock(pc')
    /\ waitElapsed' = 0
    /\ busy' = FALSE
    /\ UNCHANGED <<srvState, reject, rejectSeen, wg, inflight, helper,
                   stopState, cbVars, sigVars, racePc, exitStatus,
                   stopElapsed, closeElapsed, raceElapsed, waited>>
    /\ UNCHANGED ghostVars
    /\ UNCHANGED ctxVars

\* ---- shutdown(): stop phase (121-123, 204-207) --------------------------
\* http.Server.Shutdown takes the server's mutex, which orders the earlier
\* write of the reject flag before whatever the server's goroutines do next;
\* it closes the listeners and the idle connections ...
StopCall(s) ==
    /\ Alive
    /\ pc = [ph |-> "stop", i |-> s]
    /\ stopState' = [stopState EXCEPT ![s] = "called"]
    /\ srvState' = [srvState EXCEPT ![s] = "closed"]
    /\ rejectSeen' = [rejectSeen EXCEPT ![s] = TRUE]
    /\ pc' = [ph |-> "stopRet", i |-> s]
    /\ UNCHANGED <<reject, wg, inflight, helper,
                   waitOutcome, busy, cbVars, sigVars, racePc,
                   exitStatus, timeVars>>
    /\ UNCHANGED ghostVars
    /\ UNCHANGED ctxVars

\* ... and, its context being context.Background(), waits without limit
\* until no connection is serving a request; it then returns the error of
\* closing the listeners, if any.
ShutdownMayReturn(s) == inflight[s] = 0

StopReturn(s) ==
    /\ Alive
    /\ pc = [ph |-> "stopRet", i |-> s]
    /\ ShutdownMayReturn(s)
    /\ \E err \in BOOLEAN :
          /\ stopErr' = (stopErr \/ err)
          /\ pc' = AfterStop(s, err)
    /\ stopState' = [stopState EXCEPT ![s] = "returned"]
    /\ stopElapsed' = 0
    /\ UNCHANGED <<srvState, reject, rejectSeen, wg, inflight, helper,
                   waitOutcome, busy, cbVars, sigVars, racePc,
                   exitStatus, waitElapsed, drainElapsed, closeElapsed,
                   raceElapsed, waited>>
    /\ UNCHANGED <<armed, ctxVars>>

\* ---- shutdown(): callback phase (127, 209-220) --------------------------
WaitForPrevious(i) == IF i = 1 THEN TRUE ELSE cb[AppCbs[i - 1]] = "done"

\* `go func(cb) {...}(cb)` (214): the loop starts the callback in a goroutine
\* of its own and goes on without waiting for it.
LaunchReady(i) == TRUE

\* Iteration i of `for _, cb := range app.cbs`: wg.Add(1);
\* go func(cb) { cb(ctx) ... }(cb) (212-217).  The callback receives the
\* context made at line 107.
CbSpawn(i) ==
    /\ Alive
    /\ pc = [ph |-> "cbSpawn", i |-> i]
    /\ i <= Len(AppCbs)
    /\ LaunchReady(i)
    /\ cbWg' = cbWg + 1
    /\ cb' = [cb EXCEPT ![AppCbs[i]] = "running"]
    /\ launched' = [launched EXCEPT ![AppCbs[i]] = launched[AppCbs[i]] + 1]
    /\ cbCtx' = [cbCtx EXCEPT ![AppCbs[i]] = cbTimeout - ctxElapsed]
    /\ pc' = Advance("cbSpawn", i)
    /\ UNCHANGED ctxElapsed
    /\ UNCHANGED <<srvVars, sigVars, racePc, exitStatus, timeVars>>
    /\ UNCHANGED ghostVars

\* cb(ctx) returns, when the callback chooses to.
CbReturn(c) ==
    /\ Alive
    /\ cb[c] = "running"
    /\ cb' = [cb EXCEPT ![c] = "returned"]
    /\ UNCHANGED <<pc, srvVars, cbWg, sigVars, racePc, exitStatus, timeVars>>
    /\ UNCHANGED ghostVars
    /\ UNCHANGED ctxVars

\* cb(ctx) panics.  The goroutine of lines 214-217 has no recover: the Go
\* runtime prints the panic and ends the whole process with status 2.
CbPanic(c) ==
    /\ Alive
    /\ cb[c] = "running"
    /\ cb' = [cb EXCEPT ![c] = "panicked"]
    /\ exitStatus' = "2"
    /\ UNCHANGED <<pc, srvVars, cbWg, sigVars, racePc, timeVars>>
    /\ UNCHANGED ghostVars
    /\ UNCHANGED ctxVars

\* wg.Done() (216)
CbDone(c) ==
    /\ Alive
    /\ cb[c] = "returned"
    /\ cb' = [cb EXCEPT ![c] = "done"]
    /\ cbWg' = cbWg - 1
    /\ UNCHANGED <<pc, srvVars, sigVars, racePc, exitStatus, timeVars>>
    /\ UNCHANGED ghostVars
    /\ UNCHANGED ctxVars

JoinReadyOrDeadline == cbWg = 0 \/ ctxElapsed >= cbTimeout

\* wg.Wait() (219) returns when the counter is zero; it does not look at
\* the context.
JoinReady == cbWg = 0

\* wg.Wait() (219) returns; close() begins its time.Sleep (131, 136).
CbJoin ==
    /\ Alive
    /\ pc.ph = "cbJoin"
    /\ JoinReady
    /\ pc' = [ph |-> "close", i |-> 0]
    /\ closeElapsed' = 0
    /\ UNCHANGED <<srvVars, cbVars, sigVars, racePc, exitStatus,
                   waitElapsed, drainElapsed, stopElapsed, raceElapsed,
                   waited>>
    /\ UNCHANGED ghostVars
    /\ UNCHANGED ctxVars

\* ---- shutdown(): release phase (131, 134-138) ---------------------------
\* The sleep ends and shutdown() returns to StartAndServe; the deferred
\* cancel() (108) releases the context.
CloseDone ==
    /\ Alive
    /\ pc.ph = "close"
    /\ closeElapsed >= closeSleep
    /\ ctxElapsed' = 0
    /\ UNCHANGED <<launched, cbCtx>>
    /\ pc' = [ph |-> "afterShutdown", i |-> 0]
    /\ UNCHANGED <<srvVars, cbVars, sigVars, racePc, exitStatus, timeVars>>
    /\ UNCHANGED ghostVars

\* ---- StartAndServe after shutdown() returned (89-102) -------------------
\* go func() { select {...} }(); StartAndServe returns.
SpawnRace ==
    /\ Alive
    /\ pc.ph = "afterShutdown"
    /\ racePc' = "select"
    /\ raceElapsed' = 0
    /\ pc' = [ph |-> "returned", i |-> 0]
    /\ UNCHANGED <<srvVars, cbVars, sigVars, exitStatus, waitElapsed,
                   drainElapsed, stopElapsed, closeElapsed, waited>>
    /\ armed' = [armed EXCEPT !.exit = TimesSecond(shutdownTimeout)]
    /\ UNCHANGED stopErr
    /\ UNCHANGED ctxVars

\* case <-c: os.Exit(1) (92-94)
RaceSignal ==
    /\ Alive
    /\ racePc = "select"
    /\ sigBuf > 0
    /\ sigBuf' = sigBuf - 1
    /\ racePc' = "done"
    /\ exitStatus' = "1"
    /\ UNCHANGED <<pc, srvVars, cbVars, sig2During, timeVars>>
    /\ UNCHANGED ghostVars
    /\ UNCHANGED ctxVars

\* case <-time.After(time.Second * shutdownTimeout): os.Exit(1) (96-98)
RaceTimeout ==
    /\ Alive
    /\ racePc = "select"
    /\ raceElapsed >= shutdownTimeout
    /\ racePc' = "done"
    /\ exitStatus' = "1"
    /\ UNCHANGED <<pc, srvVars, cbVars, sigVars, timeVars>>
    /\ UNCHANGED ghostVars
    /\ UNCHANGED ctxVars

\* The caller of StartAndServe returns from main: the process ends with
\* status 0.
MainReturn ==
    /\ Alive
    /\ pc.ph = "returned"
    /\ exitStatus' = "0"
    /\ UNCHANGED <<pc, srvVars, cbVars, sigVars, racePc, timeVars>>
    /\ UNCHANGED ghostVars
    /\ UNCHANGED ctxVars

\* ---- requests (153-160) and route registration (175-179) ----------------
\* A request enters serverMux.ServeHTTP: it is answered 503 when the flag is
\* observed set, and forwarded to the wrapped ServeMux otherwise.
ServeHTTP(s) ==
    /\ Alive
    /\ srvState[s] = "listening"
    /\ SumTo(inflight, NumServers) < MaxInflight
    /\ inflight' = IF rejectSeen[s] THEN inflight
                   ELSE [inflight EXCEPT ![s] = inflight[s] + 1]
    /\ UNCHANGED <<pc, srvState, reject, rejectSeen, wg, helper, waitOutcome,
                   stopState, busy, cbVars, sigVars, racePc, exitStatus,
                   timeVars>>
    /\ UNCHANGED ghostVars
    /\ UNCHANGED ctxVars

\* The handler of a forwarded request returns.
RequestDone(s) ==
    /\ Alive
    /\ inflight[s] > 0
    /\ inflight' = [inflight EXCEPT ![s] = inflight[s] - 1]
    /\ busy' = (busy /\ ~(pc = [ph |-> "waitSel", i |-> s] /\ inflight[s] = 1))
    /\ UNCHANGED <<pc, srvState, reject, rejectSeen, wg, helper,
                   waitOutcome, stopState, cbVars, sigVars, racePc,
                   exitStatus, timeVars>>
    /\ UNCHANGED ghostVars
    /\ UNCHANGED ctxVars

\* Server.Handle: s.wg.Add(1) (176) ...
HandleBegin(s) ==
    /\ Alive
    /\ SumTo(wg, NumServers) < MaxHandle
    /\ wg' = [wg EXCEPT ![s] = wg[s] + 1]
    /\ UNCHANGED <<pc, srvState, reject, rejectSeen, inflight, helper,
                   waitOutcome, stopState, busy, cbVars, sigVars,
                   racePc, exitStatus, timeVars>>
    /\ UNCHANGED ghostVars
    /\ UNCHANGED ctxVars

\* ... s.mux.Handle(pattern, handler) has run and the deferred s.wg.Done()
\* executes (177-178).
HandleEnd(s) ==
    /\ Alive
    /\ wg[s] > 0
    /\ wg' = [wg EXCEPT ![s] = wg[s] - 1]
    /\ UNCHANGED <<pc, srvState, reject, rejectSeen, inflight, helper,
                   waitOutcome, stopState, busy, cbVars, sigVars,
                   racePc, exitStatus, timeVars>>
    /\ UNCHANGED ghostVars
    /\ UNCHANGED ctxVars

\* ---- time ---------------------------------------------------------------
\* A step of the program is ready to run.
ProgramStepReady ==
    \/ pc.ph \in {"start", "reject", "wait", "stop", "afterShutdown"}
    \/ pc.ph = "cbSpawn" /\ LaunchReady(pc.i)
    \/ pc.ph = "select" /\ sigBuf > 0
    \/ \E s \in Servers : srvState[s] = "new"
    \/ \E s \in Servers : helper[s] = "waiting" /\ wg[s] = 0
    \/ pc.ph = "waitSel" /\ (helper[pc.i] = "sending" \/ DrainTimerFired(waitElapsed))
    \/ pc.ph = "stopRet" /\ ShutdownMayReturn(pc.i)
    \/ \E c \in Callbacks : cb[c] = "returned"
    \/ pc.ph = "cbJoin" /\ JoinReady
    \/ pc.ph = "close" /\ closeElapsed >= closeSleep
    \/ racePc = "select" /\ (sigBuf > 0 \/ raceElapsed >= shutdownTimeout)

\* One second passes.  The context's timer runs from its creation until
\* shutdown() returns.
Tick ==
    /\ Alive
    /\ ~ProgramStepReady
    /\ ctxElapsed' = IF InShutdown THEN Min(ctxElapsed + 1, cbTimeout)
                     ELSE ctxElapsed
    /\ UNCHANGED <<launched, cbCtx>>
    /\ waitElapsed' = IF pc.ph = "waitSel" THEN Min(waitElapsed + 1, waitTime)
                      ELSE waitElapsed
    /\ drainElapsed' = IF pc.ph = "waitSel" THEN Min(drainElapsed + 1, MaxDrain)
                       ELSE drainElapsed
    /\ stopElapsed' = IF pc.ph = "stopRet" THEN Min(stopElapsed + 1, MaxStopWait)
                      ELSE stopElapsed
    /\ closeElapsed' = IF pc.ph = "close" THEN Min(closeElapsed + 1, closeSleep)
                       ELSE closeElapsed
    /\ raceElapsed' = IF racePc = "select" THEN Min(raceElapsed + 1, shutdownTimeout)
                      ELSE raceElapsed
    /\ waited' = (waited \/ pc.ph \in {"waitSel", "stopRet", "cbJoin"})
    /\ UNCHANGED <<pc, srvVars, cbVars, sigVars, racePc, exitStatus>>
    /\ UNCHANGED ghostVars

\* ---- specification ------------------------------------------------------
ProgramStep ==
    \/ StartServers
    \/ \E s \in Servers : ServerStart(s)
    \/ RecvFirstSignal
    \/ \E s \in Servers : RejectReq(s)
    \/ \E s \in Servers : WaitStart(s)
    \/ \E s \in Servers : HelperWake(s)
    \/ \E s \in Servers : WaitDrained(s)
    \/ \E s \in Servers : WaitTimeout(s)
    \/ \E s \in Servers : StopCall(s)
    \/ \E s \in Servers : StopReturn(s)
    \/ \E c \in Callbacks : CbSpawn(c)
    \/ \E c \in Callbacks : CbDone(c)
    \/ CbJoin
    \/ CloseDone
    \/ SpawnRace
    \/ RaceSignal
    \/ RaceTimeout

EnvStep ==
    \/ Signal
    \/ \E s \in Servers : Publish(s)
    \/ \E c \in Callbacks : CbReturn(c)
    \/ MainReturn
    \/ \E s \in Servers : ServeHTTP(s)
    \/ \E s \in Servers : RequestDone(s)
    \/ \E s \in Servers : HandleBegin(s)
    \/ \E s \in Servers : HandleEnd(s)

Next == ProgramStep \/ EnvStep \/ Tick

Spec == Init /\ [][Next]_vars

\* The behaviours in which callbacks may also panic.
PanicNext == Next \/ \E c \in Callbacks : CbPanic(c)

PanicSpec == Init /\ [][PanicNext]_vars

\* ---- fairness -----------------------------------------------------------
\* The steps of the goroutine that runs StartAndServe and shutdown().
Coordinator ==
    \/ StartServers
    \/ RecvFirstSignal
    \/ \E s \in Servers : RejectReq(s) \/ WaitStart(s) \/ WaitDrained(s)
                          \/ WaitTimeout(s) \/ StopCall(s) \/ StopReturn(s)
    \/ \E c \in Callbacks : CbSpawn(c)
    \/ CbJoin
    \/ CloseDone
    \/ SpawnRace

\* The steps of the other goroutines that, once ready, stay ready.
Goroutines ==
    \/ \E s \in Servers : ServerStart(s)
    \/ \E c \in Callbacks : CbDone(c)
    \/ RaceSignal
    \/ RaceTimeout

\* The Go scheduler runs every goroutine that is ready, and time advances.
\* WaitGroup.Wait returns if the counter is zero when it is called, and a
\* Done that brings the counter to zero releases every goroutine waiting at
\* that moment, whatever Add follows: a helper is released when the counter
\* is zero again and again.
FairSpec ==
    /\ Spec
    /\ WF_vars(Coordinator)
    /\ WF_vars(Goroutines)
    /\ SF_vars(\E s \in Servers : HelperWake(s))
    /\ SF_vars(Tick)

\* In addition every callback returns, and every request that stop() waits
\* for completes.
LiveSpec ==
    /\ FairSpec
    /\ WF_vars(\E c \in Callbacks : CbReturn(c))
    /\ WF_vars(\E s \in Servers : pc = [ph |-> "stopRet", i |-> s] /\ RequestDone(s))

\* The callback launched first never has to return; every other callback
\* returns.
Hung == AppCbs[1]

HangSpec ==
    /\ FairSpec
    /\ WF_vars(\E c \in Callbacks \ {Hung} : CbReturn(c))

ShutdownReturned == pc.ph \in {"afterShutdown", "returned"}

\* ---- claims -------------------------------------------------------------
\* C1: the phases of shutdown() are separated by barriers: waitInflight is
\* started on no server before rejectReq has been applied to all of them,
\* stop() is invoked on no server before waitInflight has returned on all of
\* them, and no callback is launched before stop() has returned on all of
\* them.
C1_PhaseBarriers ==
    /\ (\E s \in Servers : helper[s] # "none")
          => \A t \in Servers : reject[t]
    /\ (\E s \in Servers : stopState[s] # "none")
          => \A t \in Servers : waitOutcome[t] # "none"
    /\ (\E c \in Callbacks : cb[c] # "idle")
          => \A t \in Servers : stopState[t] = "returned"

C1_Witness ==
    /\ \E c \in Callbacks : cb[c] = "running"
    /\ \E s \in Servers : waitOutcome[s] = "timeout"
    /\ \E s \in Servers : waitOutcome[s] = "drained"

\* C2 (as claimed): once a second signal has been delivered while shutdown()
\* is running, the process is force-exited at that moment: no second passes
\* with shutdown() still running.
C2_SecondSignalExitsAtOnce ==
    [][(sig2During /\ InShutdown /\ Alive) => timeVars' = timeVars]_vars

\* C3 (as claimed): after the first signal is received the process always
\* eventually exits, whether or not the callbacks return.
C3_AlwaysExits ==
    SignalReceived ~> ~Alive

\* C4 (as claimed): when shutdown() has returned before any second signal
\* and before the overall budget expired (here: it waited for nothing but
\* the closeSleep of its release phase), os.Exit(1) is never taken.
C4_GracefulNeverForced ==
    (ShutdownReturned /\ ~sig2During /\ ~waited) => exitStatus # "1"

\* C5 (as claimed): once rejectReq() has completed on a server, no request
\* that enters ServeHTTP on it is forwarded to the wrapped ServeMux.
C5_NoForwardAfterReject ==
    [][\A s \in Servers : reject[s] => inflight'[s] <= inflight[s]]_vars

\* C6 (as claimed): waitInflight() on a server that has had a request in
\* flight ever since the wait began does not return before the drain
\* timeout has elapsed.
C6_BusyServerWaitsFullTimeout ==
    [][(pc.ph = "waitSel" /\ pc' # pc /\ busy) => waitElapsed >= waitTime]_vars

\* C7 (as claimed): the drain phase lasts at most one drain timeout,
\* whatever the number of servers.
C7_DrainPhaseAtMostOneTimeout ==
    pc.ph \in {"wait", "waitSel"} => drainElapsed <= waitTime

\* C8 (as claimed): stop() does not wait for a request that is still
\* running on its server: no time passes inside stop() on its account.
C8_StopDoesNotWait ==
    (pc.ph = "stopRet" /\ inflight[pc.i] > 0) => stopElapsed = 0

\* C9: every invocation of shutdown() eventually returns from the release
\* phase, when every callback returns and every request completes; drain
\* timeouts and stop() errors neither stop nor repeat a phase.
C9_ShutdownTerminates ==
    InShutdown ~> ShutdownReturned

C9_Witness ==
    /\ ShutdownReturned
    /\ \E s \in Servers : waitOutcome[s] = "timeout"
    /\ stopErr
    /\ closeElapsed >= closeSleep

\* C10: an error returned by stop() on one server does not abort
\* shutdown(): when shutdown() has returned, stop() has been invoked and has
\* returned on every server, every callback has been launched and has
\* finished, and the release phase has run.
C10_StopErrorDoesNotAbort ==
    (ShutdownReturned /\ stopErr)
        => /\ \A t \in Servers : stopState[t] = "returned"
           /\ \A c \in Callbacks : cb[c] = "done"
           /\ closeElapsed >= closeSleep

C10_Witness ==
    /\ pc.ph = "returned"
    /\ stopErr
    /\ \A t \in Servers : stopState[t] = "returned"
    /\ \A c \in Callbacks : cb[c] = "done"

\* C11: in one shutdown sequence every callback registered through the
\* options of NewApp is invoked exactly once (never twice at any moment,
\* and once each as soon as execCallBack's loop has ended), and all of them
\* receive the same context.
C11_EachCallbackOnceSameCtx ==
    /\ \A c \in Callbacks : launched[c] <= 1
    /\ pc.ph \in {"cbJoin", "close", "afterShutdown", "returned"}
          => \A c \in Callbacks : launched[c] = 1
    /\ \A c, d \in Callbacks :
          (cbCtx[c] # NoCtx /\ cbCtx[d] # NoCtx) => cbCtx[c] = cbCtx[d]

C11_Witness ==
    /\ pc.ph = "cbJoin"
    /\ \A c \in Callbacks : launched[c] = 1 /\ cbCtx[c] # NoCtx
    /\ \E c \in Callbacks : cb[c] = "done"
    /\ \E c \in Callbacks : cb[c] = "running"

\* C12: the callbacks run concurrently and independently: once the callback
\* phase has begun, every callback other than the one launched first is
\* started and runs to completion, whether or not the first ever returns.
C12_HungCallbackBlocksNoOther ==
    pc.ph = "cbSpawn" ~> \A c \in Callbacks \ {Hung} : cb[c] = "done"

C12_Witness ==
    /\ pc.ph = "cbJoin"
    /\ cb[Hung] = "running"
    /\ \A c \in Callbacks \ {Hung} : cb[c] = "done"
    /\ ctxElapsed >= cbTimeout

\* C13 (as claimed): a callback that panics is isolated: the process lives
\* on, so that the other callbacks, the join and the release phase can run.
C13_PanicIsIsolated ==
    (\E c \in Callbacks : cb[c] = "panicked") => Alive

\* C14 (as claimed): every timer a shutdown arms (the drain wait, the
\* deadline of the callbacks' context, the force-exit timer) is armed with
\* the value held in the corresponding field of App, and that value is 10s,
\* 3s and 30s respectively, no option having overridden it.
C14_TimersRunWithConfiguredValues ==
    /\ armed.wait # NotArmed
          => armed.wait = AppConfig.waitTime /\ AppConfig.waitTime = TimesSecond(10)
    /\ armed.cb # NotArmed
          => armed.cb = AppConfig.cbTimeout /\ AppConfig.cbTimeout = TimesSecond(3)
    /\ armed.exit # NotArmed
          => armed.exit = AppConfig.shutdownTimeout
             /\ AppConfig.shutdownTimeout = TimesSecond(30)

\* C15 (as claimed): on every server the counter Server.wg is non-negative
\* and equals the number of requests that ServeHTTP has dispatched to the
\* wrapped ServeMux and that have not yet returned.
C15_CounterCountsRequestsInFlight ==
    \A s \in Servers : wg[s] >= 0 /\ wg[s] = inflight[s]

\* C16 (as claimed): the context handed to the callbacks has the whole
\* callback budget left at the moment the first callback is launched,
\* whatever time the reject, drain and stop phases took.
C16_FullBudgetAtFirstLaunch ==
    cbCtx[AppCbs[1]] # NoCtx => cbCtx[AppCbs[1]] = cbTimeout

\* C17: execCallBack returns, and the release phase starts, only after
\* every callback that was launched has returned and called wg.Done(),
\* also when the deadline of the context has passed in the meantime.
C17_JoinWaitsForAllCallbacks ==
    pc.ph \in {"close", "afterShutdown", "returned"}
        => \A c \in Callbacks : launched[c] > 0 => cb[c] = "done"

C17_Witness ==
    /\ pc.ph = "close"
    /\ \A c \in Callbacks : launched[c] > 0 /\ cb[c] = "done"
    /\ cbCtx[AppCbs[1]] = cbTimeout
    /\ ctxElapsed >= cbTimeout

\* C18 (as claimed): the reject flag is accessed race-free: the write of
\* rejectReq() is ordered with the reads of ServeHTTP, so that a server that
\* accepts requests never holds a value of the flag that its request
\* goroutines do not observe.
C18_FlagAccessIsSynchronised ==
    \A s \in Servers : srvState[s] = "listening" => rejectSeen[s] = reject[s]

\* C19: on every server the reject flag is monotonic: it is false as long
\* as the first signal has not been received, and no step of any operation
\* takes it from true back to false.
C19_RejectFlagMonotonic ==
    /\ [](~SignalReceived => \A s \in Servers : ~reject[s])
    /\ [][\A s \in Servers : reject[s] => reject'[s]]_vars

C19_Witness ==
    /\ pc.ph = "returned"
    /\ \A s \in Servers : reject[s] /\ stopState[s] = "returned"
    /\ \A c \in Callbacks : cb[c] = "done"
    /\ \E s \in Servers : waitOutcome[s] = "timeout"

\* C20 (as claimed): no helper goroutine of waitInflight() is left blocked
\* for ever: once waitInflight() has returned through its timeout branch,
\* its helper is never found blocked in the send on the channel, which has
\* no receiver any more.
C20_NoHelperLeftBlocked ==
    \A s \in Servers : waitOutcome[s] = "timeout" => helper[s] # "sending"

TypeOK ==
    /\ pc.ph \in {"start", "select", "afterShutdown", "returned"} \cup ShutdownPhases
    /\ \A s \in Servers : wg[s] \in 0..MaxHandle /\ inflight[s] \in 0..MaxInflight
    /\ cbWg \in 0..NumCallbacks
    /\ \A c \in Callbacks : launched[c] \in 0..1 /\ cbCtx[c] \in NoCtx..cbTimeout
    /\ ctxElapsed \in 0..cbTimeout
    /\ exitStatus \in {"none", "0", "1", "2"}
    /\ \A k \in {"wait", "cb", "exit"} : armed[k].s \in -1..shutdownTimeout

====
